---------------------------- MODULE Spec2Model ----------------------------
(***************************************************************************)
(* A model of pe64-parse: the byteparse deserialization contract           *)
(* (byteparse/src/lib.rs, byteparse-derive/src/lib.rs) and the PE decoder  *)
(* of src/main.rs (header, section, export and import decode, address      *)
(* translation, string reading).                                           *)
(*                                                                         *)
(* Machine scaling.  TLC's integers are 32-bit, so the program is modelled *)
(* on a machine whose bytes hold ByteBits bits instead of 8.  Every type   *)
(* keeps its size in bytes (u16 = 2, u32 = 4, u64 = 8), every structure    *)
(* keeps its layout, and every integer keeps its width in bytes: u16       *)
(* arithmetic is modulo ByteSize^2, u32 arithmetic modulo ByteSize^4.      *)
(* Character literals of the program are reduced modulo ByteSize.          *)
(***************************************************************************)
EXTENDS Integers, Sequences, FiniteSets, TLC

VARIABLES
    source,    \* the byte source: [len, mem], mem sparse, absent bytes are 0
    checked,   \* TRUE: built with overflow checks (debug), FALSE: wrapping (release)
    pc,        \* position of the decode (or of the single operation under check)
    outcome,   \* "running", "image", "io_error", "abort_validation", "abort_overflow"
    dos,       \* PortableExecutable.dos
    nt,        \* PortableExecutable.nt
    secs,      \* PortableExecutable.secs
    exports,   \* PortableExecutable.exports
    imports,   \* PortableExecutable.imports
    loc        \* the locals of the running function

vars == <<source, checked, pc, outcome, dos, nt, secs, exports, imports, loc>>

---------------------------------------------------------------------------
(* Integer widths *)

ByteBits == 2

RECURSIVE Pow(_, _)
Pow(b, n) == IF n = 0 THEN 1 ELSE b * Pow(b, n - 1)

ByteSize == Pow(2, ByteBits)
U16 == Pow(ByteSize, 2)
U32 == Pow(ByteSize, 4)
U64 == Pow(ByteSize, 8)

Min(a, b) == IF a < b THEN a ELSE b

(* a character literal of the program, as a byte of the scaled machine *)
Chr(c) == c % ByteSize

(* results of fallible operations *)
Ok(v)  == [tag |-> "ok", v |-> v]
IoErr  == [tag |-> "io", v |-> 0]
Panic  == [tag |-> "panic", v |-> 0]

---------------------------------------------------------------------------
(* The byte source: std::io::Cursor over a byte slice *)

ByteAt(s, o) == IF o \in DOMAIN s.mem THEN s.mem[o] ELSE 0

RECURSIVE LE(_, _, _)
(* from_le_bytes of the n bytes at offset off *)
LE(s, off, n) ==
    IF n = 0 THEN 0 ELSE ByteAt(s, off) + ByteSize * LE(s, off + 1, n - 1)

(* seek(Start(off)) then read_exact of n bytes: fails when fewer remain *)
CanRead(s, off, n) == off + n <= s.len

---------------------------------------------------------------------------
(* Address translation *)

(* u32 + u32 wraps in a release build (the checked build panics before) *)
ConvRvaEnd(sec) == (sec.virt_addr + sec.virt_len) % U32

RECURSIVE ConvRvaFrom(_, _, _, _)
ConvRvaFrom(ss, rva, k, chk) ==
    IF k > Len(ss) THEN Ok(rva)
    ELSE LET sec == ss[k] IN
         IF rva >= sec.virt_addr
         THEN IF chk /\ sec.virt_addr + sec.virt_len >= U32
              THEN Panic
              ELSE IF rva < ConvRvaEnd(sec)
                   THEN Ok(rva - sec.virt_addr + sec.raw_addr)
                   ELSE ConvRvaFrom(ss, rva, k + 1, chk)
         ELSE ConvRvaFrom(ss, rva, k + 1, chk)

conv_rva(ss, rva, chk) == ConvRvaFrom(ss, rva, 1, chk)

---------------------------------------------------------------------------
(* conv_rva as an operation on bounded inputs *)

Idle == [none |-> TRUE]

SecVAddrs == {0, 16, U32 - 16, U32 - 1}
SecVLens  == {0, 1, 32, U32 - 1}
SecRaws   == {0, 8, U32 - 1}
RvaInputs == {0, 1, 15, 16, 17, 40, 47, 48, U32 - 17, U32 - 16, U32 - 2,
              U32 - 1, U32, U32 + 15}
MaxSecs == 2

Sec(va, vl, ra) ==
    [name |-> <<>>, virt_addr |-> va, virt_len |-> vl, raw_addr |-> ra,
     raw_len |-> 0, flags |-> 0]

SecInputs == {Sec(va, vl, ra) : va \in SecVAddrs, vl \in SecVLens, ra \in SecRaws}

SecTables == UNION {[1..n -> SecInputs] : n \in 0..MaxSecs}

EmptySource == [len |-> 0, mem |-> <<>>]

InitConvRva ==
    /\ source = EmptySource
    /\ checked \in BOOLEAN
    /\ pc = "conv_rva"
    /\ outcome = "running"
    /\ dos = Idle /\ nt = Idle
    /\ secs \in SecTables
    /\ exports = <<>> /\ imports = <<>>
    /\ \E a \in RvaInputs : loc = [rva |-> a]

CallConvRva ==
    /\ pc = "conv_rva"
    /\ pc' = "done"
    /\ loc' = [rva |-> loc.rva, result |-> conv_rva(secs, loc.rva, checked)]
    /\ UNCHANGED <<source, checked, outcome, dos, nt, secs, exports, imports>>

NextConvRva == CallConvRva

SpecConvRva == InitConvRva /\ [][NextConvRva]_vars

(* the section a lies in, by the mathematical half-open range *)
Contains(sec, a) == sec.virt_addr <= a /\ a < sec.virt_addr + sec.virt_len

FirstMatch(ss, a) ==
    IF \E k \in 1..Len(ss) : Contains(ss[k], a)
    THEN LET k == CHOOSE k \in 1..Len(ss) :
                     Contains(ss[k], a) /\ \A j \in 1..(k - 1) : ~Contains(ss[j], a)
         IN ss[k].raw_addr + (a - ss[k].virt_addr)
    ELSE a

(* C1: conv_rva returns raw_address + (a - virtual_address) of the first   *)
(* section in table order whose range [virtual_address, virtual_address +  *)
(* virtual_size) contains a, and a itself when none does, for all 32-bit   *)
(* virtual_address and virtual_size, also when the range's end exceeds     *)
(* 2^32 - 1.                                                               *)
C1_ConvRvaFirstMatch ==
    (pc = "done" /\ "result" \in DOMAIN loc)
        => loc.result = Ok(FirstMatch(secs, loc.rva))

---------------------------------------------------------------------------
(* The deserialization contract (byteparse) *)

(* type descriptors: a primitive of n bytes, a derived struct, an array *)
Scalar(n)    == [kind |-> "scalar", size |-> n]
Struct(fs)   == [kind |-> "struct", fields |-> fs]
Array(t, n)  == [kind |-> "struct", fields |-> [i \in 1..n |-> t]]

(* Bytecopy::copy_to: read_exact of size_of::<Self>() bytes, then          *)
(* *self = from_le_bytes(buf); on a short read self is not assigned.       *)
(* The result is [tag, val, pos, reads]; reads logs every read_exact made.  *)
(* copy_to_clobber is the variant that assigns self from the buffer also    *)
(* after a short read.                                                     *)
copy_to_clobber(ty, val, s, pos, reads) ==
    IF CanRead(s, pos, ty.size)
    THEN [tag |-> "ok", val |-> LE(s, pos, ty.size), pos |-> pos + ty.size,
          reads |-> Append(reads, <<pos, ty.size>>)]
    ELSE [tag |-> "io", val |-> LE(s, pos, ty.size), pos |-> pos,
          reads |-> Append(reads, <<pos, ty.size>>)]

copy_to(ty, val, s, pos, reads) ==
    IF CanRead(s, pos, ty.size)
    THEN [tag |-> "ok", val |-> LE(s, pos, ty.size), pos |-> pos + ty.size,
          reads |-> Append(reads, <<pos, ty.size>>)]
    ELSE [tag |-> "io", val |-> val, pos |-> pos,
          reads |-> Append(reads, <<pos, ty.size>>)]

RECURSIVE parse_to(_, _, _, _, _)
RECURSIVE ParseFields(_, _, _, _, _, _)
(* the derived impl and the array impl: parse_to of member k, `?`, then    *)
(* the next member                                                         *)
ParseFields(fs, vals, s, pos, reads, k) ==
    IF k > Len(fs)
    THEN [tag |-> "ok", val |-> vals, pos |-> pos, reads |-> reads]
    ELSE LET r == parse_to(fs[k], vals[k], s, pos, reads)
             vals2 == [vals EXCEPT ![k] = r.val]
         IN IF r.tag = "ok"
            THEN ParseFields(fs, vals2, s, r.pos, r.reads, k + 1)
            ELSE [tag |-> r.tag, val |-> vals2, pos |-> r.pos, reads |-> r.reads]

parse_to(ty, val, s, pos, reads) ==
    IF ty.kind = "scalar"
    THEN copy_to(ty, val, s, pos, reads)
    ELSE ParseFields(ty.fields, val, s, pos, reads, 1)

---------------------------------------------------------------------------
(* parse_to as an operation on bounded inputs *)

MaxStream == 8

ParseTypes ==
    { Struct(<<Scalar(4), Scalar(2)>>),
      Array(Scalar(2), 3),
      Struct(<<Scalar(2), Array(Scalar(1), 2), Struct(<<Scalar(1), Scalar(2)>>)>>) }

RECURSIVE Fill(_, _)
(* a value of type ty all of whose scalars are c *)
Fill(ty, c) ==
    IF ty.kind = "scalar" THEN c ELSE [i \in 1..Len(ty.fields) |-> Fill(ty.fields[i], c)]

StreamOf(n, seed, step) ==
    [len |-> n, mem |-> [o \in 0..(n - 1) |-> (seed + o * step) % ByteSize]]

Streams == {StreamOf(n, seed, step) : n \in 0..MaxStream, seed \in 0..(ByteSize - 1),
                                      step \in {1, ByteSize - 1}}

InitParseTo ==
    /\ source \in Streams
    /\ checked = FALSE
    /\ pc = "parse_to"
    /\ outcome = "running"
    /\ dos = Idle /\ nt = Idle
    /\ secs = <<>> /\ exports = <<>> /\ imports = <<>>
    /\ \E ty \in ParseTypes, c \in {0, 1}, p \in 0..1 :
          loc = [ty |-> ty, old |-> Fill(ty, c), pos |-> p]

CallParseTo ==
    /\ pc = "parse_to"
    /\ pc' = "done"
    /\ loc' = [ty |-> loc.ty, old |-> loc.old, pos |-> loc.pos,
               result |-> parse_to(loc.ty, loc.old, source, loc.pos, <<>>)]
    /\ UNCHANGED <<source, checked, outcome, dos, nt, secs, exports, imports>>

NextParseTo == CallParseTo

SpecParseTo == InitParseTo /\ [][NextParseTo]_vars

RECURSIVE Flat(_, _)
RECURSIVE FlatSeq(_, _, _)
(* the scalars of a value in declaration (index) order, each with its size *)
FlatSeq(fs, vals, k) ==
    IF k > Len(fs) THEN <<>> ELSE Flat(fs[k], vals[k]) \o FlatSeq(fs, vals, k + 1)

Flat(ty, val) ==
    IF ty.kind = "scalar" THEN <<[size |-> ty.size, val |-> val]>>
    ELSE FlatSeq(ty.fields, val, 1)

RECURSIVE SumSizes(_, _)
SumSizes(fl, k) == IF k = 0 THEN 0 ELSE fl[k].size + SumSizes(fl, k - 1)

(* the number of leading scalars the stream holds in full from pos *)
FieldsAvailable(fl, s, pos) ==
    CHOOSE k \in 0..Len(fl) :
        /\ (k > 0 => pos + SumSizes(fl, k) <= s.len)
        /\ (k < Len(fl) => pos + SumSizes(fl, k + 1) > s.len)

(* C8: parse_to on a composite or an array reads the fields in declaration *)
(* order from consecutive bytes; when the stream runs short at field k it  *)
(* returns an I/O error without rollback: the fields before k hold their   *)
(* little-endian values, field k and the fields after it keep their old    *)
(* values, and no field after k is read.                                   *)
C8_ParseToNoRollback ==
    (pc = "done" /\ "ty" \in DOMAIN loc) =>
        LET old == Flat(loc.ty, loc.old)
            new == Flat(loc.ty, loc.result.val)
            n   == Len(old)
            k   == FieldsAvailable(old, source, loc.pos)
            at(i) == loc.pos + SumSizes(old, i - 1)
        IN /\ loc.result.tag = (IF k = n THEN "ok" ELSE "io")
           /\ \A i \in 1..k : new[i].val = LE(source, at(i), old[i].size)
           /\ \A i \in (k + 1)..n : new[i].val = old[i].val
           /\ loc.result.reads = [i \in 1..Min(k + 1, n) |-> <<at(i), old[i].size>>]

(* a short read happened after at least one field was overwritten *)
C8_Witness ==
    /\ pc = "done" /\ "ty" \in DOMAIN loc
    /\ loc.result.tag = "io"
    /\ Len(loc.result.reads) >= 2
    /\ Len(loc.result.reads) < Len(Flat(loc.ty, loc.old))
    /\ loc.result.val # loc.old

---------------------------------------------------------------------------
(* The string reader *)

RECURSIVE ReadUntilNul(_, _)
(* BufRead::read_until(0, buf) from position p: the bytes up to and        *)
(* including the first NUL, or up to the end of the source; Ok either way  *)
ReadUntilNul(s, p) ==
    IF p >= s.len THEN <<>>
    ELSE IF ByteAt(s, p) = 0 THEN <<0>>
    ELSE <<ByteAt(s, p)>> \o ReadUntilNul(s, p + 1)

(* String::from_utf8_lossy on single bytes: ASCII as is, others U+FFFD *)
from_utf8_lossy(bytes) ==
    [i \in 1..Len(bytes) |-> IF bytes[i] < 128 THEN bytes[i] ELSE 65533]

read_str(ss, s, rva, chk) ==
    LET off == conv_rva(ss, rva, chk) IN
    IF off.tag # "ok" THEN off
    ELSE LET buf    == ReadUntilNul(s, off.v)
             cutoff == IF Len(buf) = 0 THEN 0 ELSE Len(buf) - 1
         IN Ok(from_utf8_lossy(SubSeq(buf, 1, cutoff)))

---------------------------------------------------------------------------
(* read_str as an operation on bounded inputs *)

MaxStrSource == 4

StrSources ==
    UNION {{[len |-> n, mem |-> m] : m \in [0..(n - 1) -> 0..2]} : n \in 0..MaxStrSource}

StrSecTables == {<<>>, <<Sec(1, 2, 0)>>, <<Sec(0, 2, 2), Sec(0, 4, 0)>>}

InitReadStr ==
    /\ source \in StrSources
    /\ checked \in BOOLEAN
    /\ pc = "read_str"
    /\ outcome = "running"
    /\ dos = Idle /\ nt = Idle
    /\ secs \in StrSecTables
    /\ exports = <<>> /\ imports = <<>>
    /\ \E a \in 0..(MaxStrSource + 1) : loc = [str_rva |-> a]

CallReadStr ==
    /\ pc = "read_str"
    /\ pc' = "done"
    /\ loc' = [str_rva |-> loc.str_rva,
               result |-> read_str(secs, source, loc.str_rva, checked)]
    /\ UNCHANGED <<source, checked, outcome, dos, nt, secs, exports, imports>>

NextReadStr == CallReadStr

SpecReadStr == InitReadStr /\ [][NextReadStr]_vars

(* a NUL byte at or after offset off *)
HasNul(s, off) == \E q \in off..(s.len - 1) : ByteAt(s, q) = 0

FirstNul(s, off) ==
    CHOOSE q \in off..(s.len - 1) :
        ByteAt(s, q) = 0 /\ \A r \in off..(q - 1) : ByteAt(s, r) # 0

(* C6: read_str returns the decoding of exactly the bytes from the         *)
(* translated offset up to, not including, the first NUL at or after it;   *)
(* when the source ends before any NUL byte, the read fails with an I/O    *)
(* error instead of returning a string.                                    *)
C6_ReadStrToNulOrFail ==
    (pc = "done" /\ "str_rva" \in DOMAIN loc) =>
        LET off == FirstMatch(secs, loc.str_rva) IN
        IF HasNul(source, off)
        THEN loc.result =
                 Ok(from_utf8_lossy([i \in 1..(FirstNul(source, off) - off)
                                         |-> ByteAt(source, off + i - 1)]))
        ELSE loc.result.tag = "io"

---------------------------------------------------------------------------
(* On-disk layouts (mod pe): the PE/COFF (PE32+) structures, sizes and the *)
(* offsets of the fields the decoder uses                                  *)

SizeOfDosHeader        == 64
OffLfanew              == 60
SizeOfNtHeaders64      == 264
SizeOfFileHeader       == 20
OffNumberOfSections    == 6
OffSizeOfOptionalHdr   == 20
OffDataDirectory       == 136
SizeOfDataDirectory    == 8
SizeOfSectionHeader    == 40
SizeOfSectionName      == 8
OffVirtualSize         == 8
OffVirtualAddress      == 12
OffSizeOfRawData       == 16
OffPointerToRawData    == 20
OffCharacteristics     == 36
SizeOfExportDirectory  == 40
OffBase                == 16
OffNumberOfFunctions   == 20
OffNumberOfNames       == 24
OffAddressOfFunctions  == 28
OffAddressOfNames      == 32
OffAddressOfNameOrds   == 36
SizeOfImportDescriptor == 20
OffOriginalFirstThunk  == 0
OffImportName          == 12
OffFirstThunk          == 16

(* the little-endian values of the byte strings "MZ" and "PE\0\0" *)
MagicMZ == Chr(77) + ByteSize * Chr(90)
SignaturePE == Chr(80) + ByteSize * Chr(69)

---------------------------------------------------------------------------
(* at and at_rva: seek, then Byteparse::parse of the whole structure; the  *)
(* records keep the fields the decoder reads afterwards                    *)

AtScalar(s, off, n) == IF CanRead(s, off, n) THEN Ok(LE(s, off, n)) ELSE IoErr

AtDosHeader(s, off) ==
    IF CanRead(s, off, SizeOfDosHeader)
    THEN Ok([e_magic |-> LE(s, off, 2), e_lfanew |-> LE(s, off + OffLfanew, 4)])
    ELSE IoErr

DataDirectoryAt(s, off) ==
    [virtual_address |-> LE(s, off, 4), size |-> LE(s, off + 4, 4)]

AtNtHeaders(s, off) ==
    IF CanRead(s, off, SizeOfNtHeaders64)
    THEN Ok([signature |-> LE(s, off, 4),
             number_of_sections |-> LE(s, off + OffNumberOfSections, 2),
             size_of_optional_header |-> LE(s, off + OffSizeOfOptionalHdr, 2),
             data_directory |->
                 [k \in 0..1 |->
                     DataDirectoryAt(s, off + OffDataDirectory + SizeOfDataDirectory * k)]])
    ELSE IoErr

RECURSIVE TakeWhileNonZero(_, _, _)
TakeWhileNonZero(s, off, n) ==
    IF n = 0 \/ ByteAt(s, off) = 0 THEN <<>>
    ELSE <<ByteAt(s, off)>> \o TakeWhileNonZero(s, off + 1, n - 1)

AtSectionHeader(s, off) ==
    IF CanRead(s, off, SizeOfSectionHeader)
    THEN Ok([name      |-> TakeWhileNonZero(s, off, SizeOfSectionName),
             virt_addr |-> LE(s, off + OffVirtualAddress, 4),
             virt_len  |-> LE(s, off + OffVirtualSize, 4),
             raw_addr  |-> LE(s, off + OffPointerToRawData, 4),
             raw_len   |-> LE(s, off + OffSizeOfRawData, 4),
             flags     |-> LE(s, off + OffCharacteristics, 4)])
    ELSE IoErr

AtExportDirectory(s, off) ==
    IF CanRead(s, off, SizeOfExportDirectory)
    THEN Ok([base                     |-> LE(s, off + OffBase, 4),
             number_of_functions      |-> LE(s, off + OffNumberOfFunctions, 4),
             number_of_names          |-> LE(s, off + OffNumberOfNames, 4),
             address_of_functions     |-> LE(s, off + OffAddressOfFunctions, 4),
             address_of_names         |-> LE(s, off + OffAddressOfNames, 4),
             address_of_name_ordinals |-> LE(s, off + OffAddressOfNameOrds, 4)])
    ELSE IoErr

AtImportDescriptor(s, off) ==
    IF CanRead(s, off, SizeOfImportDescriptor)
    THEN Ok([original_first_thunk |-> LE(s, off + OffOriginalFirstThunk, 4),
             name                 |-> LE(s, off + OffImportName, 4),
             first_thunk          |-> LE(s, off + OffFirstThunk, 4)])
    ELSE IoErr

(* at_rva::<u32> / at_rva::<u64> *)
AtRvaScalar(ss, s, rva, n, chk) ==
    LET off == conv_rva(ss, rva, chk) IN
    IF off.tag # "ok" THEN off ELSE AtScalar(s, off.v, n)

---------------------------------------------------------------------------
(* load_exports *)

(* the FnvHashSet<OrdEntry> collected from the chunks of buf: OrdEntry     *)
(* hashes and compares by its ordinal only, and inserting an entry equal   *)
(* to one already present keeps the one present: a map from each ordinal   *)
(* to the first chunk index holding it.  n is the number of chunks.        *)
NameOrds(s, off, n) ==
    LET ord(j) == LE(s, off + 2 * j, 2)
        vals   == {ord(j) : j \in 0..(n - 1)}
    IN [v \in vals |->
           CHOOSE j \in 0..(n - 1) : ord(j) = v /\ \A h \in 0..(j - 1) : ord(h) # v]

(* lines 140-185: the directory entry, the export directory, the bulk read *)
(* of the name ordinals                                                    *)
ExportsPrologue(ss, s, ntv, chk) ==
    LET dir     == ntv.data_directory[0]
        dir_rva == dir.virtual_address
        dir_len == dir.size
    IN
    IF dir_rva = 0 \/ dir_len = 0 THEN [tag |-> "none", v |-> 0]
    ELSE LET eoff == conv_rva(ss, dir_rva, chk) IN
    IF eoff.tag # "ok" THEN eoff
    ELSE LET ex == AtExportDirectory(s, eoff.v) IN
    IF ex.tag # "ok" THEN ex
    ELSE LET ooff == conv_rva(ss, ex.v.address_of_name_ordinals, chk) IN
    IF ooff.tag # "ok" THEN ooff
    ELSE IF chk /\ ex.v.number_of_names * 2 >= U32 THEN Panic
    ELSE LET buflen == (ex.v.number_of_names * 2) % U32 IN
    IF ~CanRead(s, ooff.v, buflen) THEN IoErr
    ELSE Ok([export |-> ex.v, dir_rva |-> dir_rva, dir_len |-> dir_len,
             name_ords |-> NameOrds(s, ooff.v, buflen \div 2)])

DotChar   == Chr(46)
DllSuffix == <<Chr(46), Chr(100), Chr(108), Chr(108)>>

RECURSIVE FindChar(_, _, _)
FindChar(str, c, k) ==
    IF k > Len(str) THEN 0 ELSE IF str[k] = c THEN k ELSE FindChar(str, c, k + 1)

RECURSIVE FindLastChar(_, _, _)
FindLastChar(str, c, k) ==
    IF k = 0 THEN 0 ELSE IF str[k] = c THEN k ELSE FindLastChar(str, c, k - 1)

(* the variant that splits at the last '.', as rsplitn(2, '.') would *)
ForwardedAtLastDot(forwarder) ==
    LET p == FindLastChar(forwarder, DotChar, Len(forwarder)) IN
    IF p = 0
    THEN [kind |-> "forwarded", module |-> forwarder, func |-> <<>>]
    ELSE [kind |-> "forwarded",
          module |-> SubSeq(forwarder, 1, p - 1) \o DllSuffix,
          func   |-> SubSeq(forwarder, p + 1, Len(forwarder))]

(* lines 203-210: splitn(2, '.') and the two arms *)
Forwarded(forwarder) ==
    LET p == FindChar(forwarder, DotChar, 1) IN
    IF p = 0
    THEN [kind |-> "forwarded", module |-> forwarder, func |-> <<>>]
    ELSE [kind |-> "forwarded",
          module |-> SubSeq(forwarder, 1, p - 1) \o DllSuffix,
          func   |-> SubSeq(forwarder, p + 1, Len(forwarder))]

(* line 199 *)
IsForwarded(func, dir_rva, dir_len) == func >= dir_rva /\ func < dir_rva + dir_len

(* lines 197-214 *)
ExportAddr(ss, s, func, dir_rva, dir_len, chk) ==
    IF IsForwarded(func, dir_rva, dir_len)
    THEN LET str == read_str(ss, s, func, chk) IN
         IF str.tag # "ok" THEN str ELSE Ok(Forwarded(str.v))
    ELSE Ok([kind |-> "rva", rva |-> func])

(* lines 188-195: the name of table index i *)
ExportName(ss, s, l, i, chk) ==
    LET key == i % U16 IN
    IF key \in DOMAIN l.name_ords
    THEN LET ni == l.name_ords[key]
             name_rva == AtRvaScalar(ss, s, l.export.address_of_names + ni * 4, 4, chk)
         IN IF name_rva.tag # "ok" THEN name_rva
            ELSE LET str == read_str(ss, s, name_rva.v, chk) IN
                 IF str.tag # "ok" THEN str ELSE Ok([some |-> TRUE, name |-> str.v])
    ELSE Ok([some |-> FALSE, name |-> <<>>])

(* line 219: export.base as u16 + i as u16 *)
ExportOrd(base, i, chk) ==
    LET sum == (base % U16) + (i % U16) IN
    IF chk /\ sum >= U16 THEN Panic ELSE Ok(sum % U16)

(* lines 188-220: one iteration of the loop over the function table *)
ExportRecord(ss, s, l, i, chk) ==
    LET name == ExportName(ss, s, l, i, chk) IN
    IF name.tag # "ok" THEN name
    ELSE LET func == AtRvaScalar(ss, s, l.export.address_of_functions + i * 4, 4, chk) IN
    IF func.tag # "ok" THEN func
    ELSE LET addr == ExportAddr(ss, s, func.v, l.dir_rva, l.dir_len, chk) IN
    IF addr.tag # "ok" THEN addr
    ELSE LET ord == ExportOrd(l.export.base, i, chk) IN
    IF ord.tag # "ok" THEN ord
    ELSE Ok([name |-> name.v, addr |-> addr.v, ord |-> ord.v])

---------------------------------------------------------------------------
(* load_imports *)

(* the variant that prefers first_thunk *)
LookupAddrFirstThunk(import) ==
    IF import.first_thunk = 0
    THEN import.original_first_thunk
    ELSE import.first_thunk

(* lines 248-252 *)
LookupAddr(import) ==
    IF import.original_first_thunk = 0
    THEN import.first_thunk
    ELSE import.original_first_thunk

(* lines 261-265: entry & 0x8000000000000000, entry as u16 *)
ImportFunc(ss, s, entry, chk) ==
    IF entry >= U64 \div 2
    THEN Ok([kind |-> "by_ord", ord |-> entry % U16])
    ELSE LET str == read_str(ss, s, entry + 2, chk) IN
         IF str.tag # "ok" THEN str ELSE Ok([kind |-> "by_name", name |-> str.v])

---------------------------------------------------------------------------
(* The decode: PortableExecutableParser::parse and parse_self *)

DefaultDos == [e_magic |-> 0, e_lfanew |-> 0]
DefaultNt ==
    [signature |-> 0, number_of_sections |-> 0, size_of_optional_header |-> 0,
     data_directory |-> [k \in 0..1 |-> [virtual_address |-> 0, size |-> 0]]]

(* the io::Result an error or a panic ends the decode with *)
FailureOf(r) == IF r.tag = "io" THEN "io_error" ELSE "abort_overflow"

Stop(o) == pc' = "done" /\ outcome' = o

(* line 100 *)
ReadDos ==
    /\ pc = "at_dos"
    /\ LET r == AtDosHeader(source, 0) IN
       IF r.tag = "ok"
       THEN dos' = r.v /\ pc' = "at_nt" /\ UNCHANGED outcome
       ELSE Stop(FailureOf(r)) /\ UNCHANGED dos
    /\ UNCHANGED <<source, checked, nt, secs, exports, imports, loc>>

(* line 101 *)
ReadNt ==
    /\ pc = "at_nt"
    /\ LET r == AtNtHeaders(source, dos.e_lfanew) IN
       IF r.tag = "ok"
       THEN nt' = r.v /\ pc' = "assert_magic" /\ UNCHANGED outcome
       ELSE Stop(FailureOf(r)) /\ UNCHANGED nt
    /\ UNCHANGED <<source, checked, dos, secs, exports, imports, loc>>

(* line 103 *)
AssertMagic ==
    /\ pc = "assert_magic"
    /\ IF dos.e_magic = MagicMZ
       THEN pc' = "assert_signature" /\ UNCHANGED outcome
       ELSE Stop("abort_validation")
    /\ UNCHANGED <<source, checked, dos, nt, secs, exports, imports, loc>>

(* line 104 *)
AssertSignature ==
    /\ pc = "assert_signature"
    /\ IF nt.signature = SignaturePE
       THEN pc' = "load_sections" /\ loc' = [i |-> 0] /\ UNCHANGED outcome
       ELSE Stop("abort_validation") /\ UNCHANGED loc
    /\ UNCHANGED <<source, checked, dos, nt, secs, exports, imports>>

(* lines 113-115 *)
SecHeaders == dos.e_lfanew + SizeOfFileHeader + nt.size_of_optional_header + 4

(* lines 117-134: one iteration *)
LoadSection ==
    /\ pc = "load_sections"
    /\ loc.i < nt.number_of_sections
    /\ LET r == AtSectionHeader(source, SecHeaders + SizeOfSectionHeader * loc.i) IN
       IF r.tag = "ok"
       THEN /\ secs' = Append(secs, r.v)
            /\ loc' = [i |-> loc.i + 1]
            /\ UNCHANGED <<pc, outcome>>
       ELSE Stop(FailureOf(r)) /\ UNCHANGED <<secs, loc>>
    /\ UNCHANGED <<source, checked, dos, nt, exports, imports>>

(* line 136 *)
SectionsDone ==
    /\ pc = "load_sections"
    /\ loc.i >= nt.number_of_sections
    /\ pc' = "load_exports"
    /\ loc' = Idle
    /\ UNCHANGED <<source, checked, outcome, dos, nt, secs, exports, imports>>

(* lines 140-185 *)
ExportsBegin ==
    /\ pc = "load_exports"
    /\ LET r == ExportsPrologue(secs, source, nt, checked) IN
       IF r.tag = "none"
       THEN pc' = "load_imports" /\ UNCHANGED <<outcome, loc>>
       ELSE IF r.tag = "ok"
       THEN /\ pc' = "exports_loop"
            /\ loc' = [export |-> r.v.export, dir_rva |-> r.v.dir_rva,
                       dir_len |-> r.v.dir_len, name_ords |-> r.v.name_ords, i |-> 0]
            /\ UNCHANGED outcome
       ELSE Stop(FailureOf(r)) /\ UNCHANGED loc
    /\ UNCHANGED <<source, checked, dos, nt, secs, exports, imports>>

(* lines 187-221: one iteration *)
ExportStep ==
    /\ pc = "exports_loop"
    /\ loc.i < loc.export.number_of_functions
    /\ LET r == ExportRecord(secs, source, loc, loc.i, checked) IN
       IF r.tag = "ok"
       THEN /\ exports' = Append(exports, r.v)
            /\ loc' = [loc EXCEPT !.i = loc.i + 1]
            /\ UNCHANGED <<pc, outcome>>
       ELSE Stop(FailureOf(r)) /\ UNCHANGED <<exports, loc>>
    /\ UNCHANGED <<source, checked, dos, nt, secs, imports>>

(* line 223 *)
ExportsDone ==
    /\ pc = "exports_loop"
    /\ loc.i >= loc.export.number_of_functions
    /\ pc' = "load_imports"
    /\ UNCHANGED <<source, checked, outcome, dos, nt, secs, exports, imports, loc>>

(* lines 227-235, and Ok(parser.p) when there is no import directory *)
ImportsBegin ==
    /\ pc = "load_imports"
    /\ LET dir == nt.data_directory[1] IN
       IF dir.virtual_address = 0 \/ dir.size = 0
       THEN Stop("image") /\ UNCHANGED loc
       ELSE /\ pc' = "imports_loop"
            /\ loc' = [import_addr |-> dir.virtual_address]
            /\ UNCHANGED outcome
    /\ UNCHANGED <<source, checked, dos, nt, secs, exports, imports>>

(* lines 237-252: one descriptor, to the head of its thunk walk *)
ImportDescriptor ==
    /\ pc = "imports_loop"
    /\ LET off == conv_rva(secs, loc.import_addr, checked) IN
       IF off.tag # "ok" THEN Stop(FailureOf(off)) /\ UNCHANGED loc
       ELSE LET r == AtImportDescriptor(source, off.v) IN
       IF r.tag # "ok" THEN Stop(FailureOf(r)) /\ UNCHANGED loc
       ELSE IF r.v.name = 0 THEN Stop("image") /\ UNCHANGED loc
       ELSE LET name == read_str(secs, source, r.v.name, checked) IN
       IF name.tag # "ok" THEN Stop(FailureOf(name)) /\ UNCHANGED loc
       ELSE /\ pc' = "thunks_loop"
            /\ loc' = [import_addr |-> loc.import_addr + SizeOfImportDescriptor,
                       module |-> [name |-> name.v, funcs |-> <<>>],
                       lookup_addr |-> LookupAddr(r.v)]
            /\ UNCHANGED outcome
    /\ UNCHANGED <<source, checked, dos, nt, secs, exports, imports>>

(* lines 254-268: one thunk entry; the zero entry pushes the module *)
ImportThunk ==
    /\ pc = "thunks_loop"
    /\ LET entry == AtRvaScalar(secs, source, loc.lookup_addr, 8, checked) IN
       IF entry.tag # "ok"
       THEN Stop(FailureOf(entry)) /\ UNCHANGED <<imports, loc>>
       ELSE IF entry.v = 0
       THEN /\ imports' = Append(imports, loc.module)
            /\ pc' = "imports_loop"
            /\ loc' = [import_addr |-> loc.import_addr]
            /\ UNCHANGED outcome
       ELSE LET f == ImportFunc(secs, source, entry.v, checked) IN
       IF f.tag # "ok"
       THEN Stop(FailureOf(f)) /\ UNCHANGED <<imports, loc>>
       ELSE /\ loc' = [loc EXCEPT !.lookup_addr = loc.lookup_addr + 8,
                                  !.module.funcs = Append(loc.module.funcs, f.v)]
            /\ UNCHANGED <<pc, outcome, imports>>
    /\ UNCHANGED <<source, checked, dos, nt, secs, exports>>

Next ==
    \/ ReadDos \/ ReadNt \/ AssertMagic \/ AssertSignature
    \/ LoadSection \/ SectionsDone
    \/ ExportsBegin \/ ExportStep \/ ExportsDone
    \/ ImportsBegin \/ ImportDescriptor \/ ImportThunk

---------------------------------------------------------------------------
(* The sources the decode is run on.  A source is built from writes        *)
(* [off, n, v]: the n-byte little-endian value v at file offset off.       *)

W(off, n, v) == [off |-> off, n |-> n, v |-> v]

(* the bytes of a string, one write each *)
WStr(off, bytes) == {W(off + i - 1, 1, bytes[i]) : i \in 1..Len(bytes)}

MemOf(ws) ==
    [o \in UNION {w.off..(w.off + w.n - 1) : w \in ws} |->
        LET w == CHOOSE w \in ws : o \in w.off..(w.off + w.n - 1)
        IN (w.v \div Pow(ByteSize, o - w.off)) % ByteSize]

Image(len, ws) == [len |-> len, mem |-> MemOf(ws)]

(* file offsets and RVAs of the generated images *)
Lay ==
    [lfanew  |-> 64,    \* the NT headers follow the DOS header
     hdr_end |-> 328,   \* lfanew + SizeOfNtHeaders64
     delta   |-> 228,   \* the data section maps RVA r to file offset r + delta
     dir     |-> 104,   \* RVA of the export directory / first import descriptor
     names   |-> 144,   \* RVA of the export names table
     ords    |-> 156,   \* RVA of the export name-ordinals table
     s1      |-> 162,   \* "A.B"
     s2      |-> 166,   \* "A.B.A"
     s3      |-> 172,   \* "AB"
     s4      |-> 175,   \* ".A"
     s5      |-> 178,   \* "B."
     funcs   |-> 184,   \* RVA of the export function table
     a       |-> 1,     \* the letter A
     b       |-> 3]     \* the letter B

(* "BA" with no NUL after it: the last two bytes of an export image *)
LayS6 == Lay.funcs + 4 * (U16 + 1)
ExportEnd == LayS6 + 2

(* the data section: every RVA from 16 on, at file offsets from 244 on *)
DataSec == Sec(16, U32 - 17, 16 + Lay.delta)
(* a section whose end virt_addr + virt_len exceeds the u32 range *)
WrapSec == Sec(16, U32 - 1, 16 + Lay.delta)

HeaderW(magic, lfanew, sig, nsec, soh) ==
    { W(0, 2, magic), W(OffLfanew, 4, lfanew), W(lfanew, 4, sig),
      W(lfanew + OffNumberOfSections, 2, nsec),
      W(lfanew + OffSizeOfOptionalHdr, 2, soh) }

DirW(k, rva, size) ==
    { W(Lay.lfanew + OffDataDirectory + SizeOfDataDirectory * k, 4, rva),
      W(Lay.lfanew + OffDataDirectory + SizeOfDataDirectory * k + 4, 4, size) }

SectionW(k, sec) ==
    LET at == Lay.lfanew + SizeOfFileHeader + 4 + SizeOfSectionHeader * k IN
    { W(at, 1, Lay.a),
      W(at + OffVirtualSize, 4, sec.virt_len),
      W(at + OffVirtualAddress, 4, sec.virt_addr),
      W(at + OffPointerToRawData, 4, sec.raw_addr) }

GoodHeaderW(sec) ==
    HeaderW(MagicMZ, Lay.lfanew, SignaturePE, 1, 0) \cup SectionW(0, sec)

(* data written at an RVA of the data section *)
D(rva, n, v) == W(rva + Lay.delta, n, v)
DStr(rva, bytes) == WStr(rva + Lay.delta, bytes)

HeaderImages ==
    { Image(len, HeaderW(magic, lfanew, sig, nsec, soh)
                 \cup (IF nsec > 0 THEN SectionW(0, DataSec) ELSE {})) :
        len \in {10, SizeOfDosHeader, Lay.hdr_end},
        magic \in {MagicMZ, MagicMZ + 1},
        lfanew \in {Lay.lfanew, Lay.lfanew + 8},
        sig \in {SignaturePE, SignaturePE + 1},
        nsec \in {0, 1, 2, 7},
        soh \in {0, 8} }

StringsW ==
    DStr(Lay.s1, <<Lay.a, DotChar, Lay.b>>)
    \cup DStr(Lay.s2, <<Lay.a, DotChar, Lay.b, DotChar, Lay.a>>)
    \cup DStr(Lay.s3, <<Lay.a, Lay.b>>)
    \cup DStr(Lay.s4, <<DotChar, Lay.a>>)
    \cup DStr(Lay.s5, <<Lay.b, DotChar>>)
    \cup DStr(LayS6, <<Lay.b, Lay.a>>)

ExportDirW(base, nf, nn) ==
    { D(Lay.dir + OffBase, 4, base),
      D(Lay.dir + OffNumberOfFunctions, 4, nf),
      D(Lay.dir + OffNumberOfNames, 4, nn),
      D(Lay.dir + OffAddressOfFunctions, 4, Lay.funcs),
      D(Lay.dir + OffAddressOfNames, 4, Lay.names),
      D(Lay.dir + OffAddressOfNameOrds, 4, Lay.ords) }

(* fs: the function table, ns: the names table, os: the name ordinals *)
ExportImage(len, sec, size, base, nf, nn, fs, ns, os) ==
    Image(len + Lay.delta,
          GoodHeaderW(sec) \cup DirW(0, Lay.dir, size) \cup StringsW
          \cup ExportDirW(base, nf, nn)
          \cup {D(Lay.funcs + 4 * (i - 1), 4, fs[i]) : i \in 1..Len(fs)}
          \cup {D(Lay.names + 4 * (j - 1), 4, ns[j]) : j \in 1..Len(ns)}
          \cup {D(Lay.ords + 2 * (j - 1), 2, os[j]) : j \in 1..Len(os)})

MaxFuncs == 3
MaxNames == 2

Direct(n) == [i \in 1..n |-> 10]

(* the directory size that covers the strings *)
ExportDirSize == ExportEnd + 1 - Lay.dir

(* ordinals: bases around the u16 range, ordinal-only exports *)
OrdinalImages ==
    { ExportImage(ExportEnd, sec, ExportDirSize, base, nf, 0, Direct(nf), <<>>, <<>>) :
        sec \in {DataSec, WrapSec},
        base \in {1, U16 - 1, U16, U16 + 2},
        nf \in 0..MaxFuncs }

FuncRvas ==
    {10, Lay.dir - 1, Lay.dir, Lay.s1, Lay.s2, Lay.s3, Lay.s4, Lay.s5, LayS6,
     ExportEnd, ExportEnd + 1}

(* forwarders: function RVAs below, inside and above the export directory *)
ForwarderImages ==
    { ExportImage(len, DataSec, size, 1, 2, 0, <<10, f>>, <<>>, <<>>) :
        len \in {ExportEnd, Lay.funcs + 6},
        size \in {ExportDirSize, Lay.s3 - Lay.dir, U32 - 1},
        f \in FuncRvas }

(* names: the name-ordinals table over the indices, repeated values, and   *)
(* more functions than a u16 counts                                        *)
NameImages ==
    { ExportImage(ExportEnd, DataSec, ExportDirSize, 1, nf, Len(os),
                  [i \in 1..nf |-> IF i = 2 THEN Lay.s1 ELSE 10],
                  [j \in 1..Len(os) |-> IF j % 2 = 1 THEN Lay.s3 ELSE Lay.s1], os) :
        nf \in {MaxFuncs, U16 + 1},
        os \in UNION {[1..n -> 0..MaxFuncs] : n \in 0..MaxNames} }
    \cup
    { ExportImage(ExportEnd, DataSec, ExportDirSize, 1, 2, U32 \div 2, Direct(2),
                  <<Lay.s3>>, <<1>>) }

MaxModules == 2

(* RVAs of the import images: the thunk tables, the module names "A" and   *)
(* "B", the hint/name entries "AB" and "B"                                 *)
LayT1   == Lay.dir + SizeOfImportDescriptor * (MaxModules + 1)
LayT2   == LayT1 + 24
LayM1   == LayT2 + 16
LayM2   == LayM1 + 2
LayHn1  == LayM2 + 2
LayHn2  == LayHn1 + 5
ImportEnd == LayHn2 + 4

ThunkOrd7  == U64 \div 2 + 7
ThunkOrd3  == U64 \div 2 + U16 + 3

ThunkTables ==
    { <<0>>, <<ThunkOrd7, 0>>, <<LayHn1, ThunkOrd3, 0>>,
      <<ThunkOrd7, LayHn1, LayHn2>> }

Descriptors ==
    { [oft |-> LayT1, ft |-> LayT2, name |-> LayM1],
      [oft |-> 0, ft |-> LayT2, name |-> LayM2] }

DescriptorW(k, d) ==
    { D(Lay.dir + SizeOfImportDescriptor * k + OffOriginalFirstThunk, 4, d.oft),
      D(Lay.dir + SizeOfImportDescriptor * k + OffImportName, 4, d.name),
      D(Lay.dir + SizeOfImportDescriptor * k + OffFirstThunk, 4, d.ft) }

(* ds: the descriptors before the terminating one, whose name field is 0 *)
ImportImage(len, sec, ds, t1) ==
    Image(len + Lay.delta,
          GoodHeaderW(sec) \cup DirW(1, Lay.dir, SizeOfImportDescriptor)
          \cup UNION {DescriptorW(k - 1, ds[k]) : k \in 1..Len(ds)}
          \cup DescriptorW(Len(ds), [oft |-> LayT1, ft |-> LayT2, name |-> 0])
          \cup {D(LayT1 + 8 * (i - 1), 8, t1[i]) : i \in 1..Len(t1)}
          \cup {D(LayT2, 8, LayHn2), D(LayT2 + 8, 8, 0)}
          \cup DStr(LayM1, <<Lay.a>>) \cup DStr(LayM2, <<Lay.b>>)
          \cup DStr(LayHn1 + 2, <<Lay.a, Lay.b>>)
          \cup DStr(LayHn2 + 2, <<Lay.b>>)
          \cup {D(LayHn1, 2, 5), D(LayHn2, 2, 6)})

ImportImages ==
    { ImportImage(len, sec, ds, t1) :
        len \in {ImportEnd, LayT1 + 20, Lay.dir + 30},
        sec \in {DataSec, WrapSec},
        ds \in UNION {[1..n -> Descriptors] : n \in 0..MaxModules},
        t1 \in ThunkTables }

Images == HeaderImages \cup OrdinalImages \cup ForwarderImages \cup NameImages
          \cup ImportImages

Init ==
    /\ source \in Images
    /\ checked \in BOOLEAN
    /\ pc = "at_dos"
    /\ outcome = "running"
    /\ dos = DefaultDos
    /\ nt = DefaultNt
    /\ secs = <<>> /\ exports = <<>> /\ imports = <<>>
    /\ loc = Idle

Spec == Init /\ [][Next]_vars

FairSpec == Spec /\ WF_vars(Next)

---------------------------------------------------------------------------
(* Properties of the decode *)

(* what the source holds, read directly *)
DosReadable == CanRead(source, 0, SizeOfDosHeader)
SrcLfanew   == LE(source, OffLfanew, 4)
NtReadable  == DosReadable /\ CanRead(source, SrcLfanew, SizeOfNtHeaders64)
BadMagic    == LE(source, 0, 2) # MagicMZ
BadSig      == LE(source, SrcLfanew, 4) # SignaturePE

(* C2: a format validation failure (DOS magic not "MZ", NT signature not   *)
(* "PE\0\0") is surfaced to the caller of parse as a recoverable decode    *)
(* error result; it never aborts the process.                              *)
C2_ValidationIsRecoverable ==
    (pc = "done" /\ NtReadable /\ (BadMagic \/ BadSig))
        => outcome = "format_error"

(* C10: for every source whose DOS header can be read and whose first two  *)
(* bytes are not "MZ", the decode ends with a format validation failure    *)
(* (not an I/O error, not an image), the magic is checked before the NT    *)
(* header is read, and no section, export or import record exists then.    *)
C10_MagicCheckedFirst ==
    (DosReadable /\ BadMagic) =>
        /\ nt = DefaultNt
        /\ secs = <<>> /\ exports = <<>> /\ imports = <<>>
        /\ (pc = "done" => outcome \in {"abort_validation", "format_error"})

(* C7: the decode terminates on every finite source: the descriptor walk   *)
(* and every thunk walk end at a zero sentinel or an I/O error, and the    *)
(* decode reaches a final outcome: image, I/O error or validation failure. *)
C7_FinalOutcome ==
    /\ outcome \in {"running", "image", "io_error", "abort_validation", "format_error"}
    /\ (pc = "done" => outcome # "running")

(* every behaviour of the decode ends, whatever the outcome *)
Terminates == <>(pc = "done")

(* the locals of load_exports are live *)
InExports == "export" \in DOMAIN loc

(* the translated section table has no range ending beyond the u32 range,  *)
(* and the name-ordinals buffer length fits a u32                          *)
NoWrap ==
    /\ \A k \in 1..Len(secs) : secs[k].virt_addr + secs[k].virt_len < U32
    /\ InExports => loc.export.number_of_names * 2 < U32

SrcOrd(j)  == LE(source, FirstMatch(secs, loc.export.address_of_name_ordinals) + 2 * j, 2)
SrcNameRva(j) == LE(source, FirstMatch(secs, loc.export.address_of_names + 4 * j), 4)

(* C9: the record of table index i has a name iff some position j in       *)
(* 0..name_count of the name-ordinals array holds i, and then the name is  *)
(* the string referenced by entry j of the names array; also when          *)
(* function_count exceeds 65535 and when entries repeat.                   *)
C9_ExportNames ==
    (InExports /\ NoWrap) =>
        \A k \in 1..Len(exports) :
            LET J == {j \in 0..(loc.export.number_of_names - 1) : SrcOrd(j) = k - 1} IN
            /\ exports[k].name.some <=> J # {}
            /\ exports[k].name.some =>
                   \E j \in J : Ok(exports[k].name.name) =
                                    read_str(secs, source, SrcNameRva(j), checked)

(* the function RVA of table index i, read directly from the source *)
SrcFunc(i) ==
    LE(source, conv_rva(secs, loc.export.address_of_functions + 4 * i, checked).v, 4)

HasDot(str) == \E p \in 1..Len(str) : str[p] = DotChar
FirstDot(str) ==
    CHOOSE p \in 1..Len(str) : str[p] = DotChar /\ \A q \in 1..(p - 1) : str[q] # DotChar

(* C4: a function RVA f is a forwarder exactly when                        *)
(* export_dir_rva <= f < export_dir_rva + size, otherwise it is the direct *)
(* address Rva(f).  For a forwarder string s with a '.', the module is the *)
(* text before the first '.' with ".dll" appended and the function is all  *)
(* that follows the first '.'; with no '.', the module is s and the        *)
(* function is empty.                                                      *)
C4_ForwarderClassification ==
    InExports =>
        \A k \in 1..Len(exports) :
            LET f    == SrcFunc(k - 1)
                dir  == nt.data_directory[0]
                addr == exports[k].addr
                str  == read_str(secs, source, f, checked).v
            IN
            /\ addr.kind = "forwarded"
                   <=> (dir.virtual_address <= f /\ f < dir.virtual_address + dir.size)
            /\ addr.kind = "rva" => addr.rva = f
            /\ (addr.kind = "forwarded" /\ HasDot(str)) =>
                   /\ addr.module = SubSeq(str, 1, FirstDot(str) - 1) \o DllSuffix
                   /\ addr.func = SubSeq(str, FirstDot(str) + 1, Len(str))
            /\ (addr.kind = "forwarded" /\ ~HasDot(str)) =>
                   /\ addr.module = str
                   /\ addr.func = <<>>

(* a forwarder with two dots, one without a dot, and a direct address at   *)
(* the end of the directory range have been decoded                        *)
C4_Witness ==
    /\ InExports
    /\ Len(exports) = 2
    /\ \/ /\ exports[2].addr.kind = "forwarded"
          /\ exports[2].addr.module = <<Lay.a>> \o DllSuffix
          /\ exports[2].addr.func = <<Lay.b, DotChar, Lay.a>>
          /\ exports[1].addr.kind = "rva"

(* the import descriptors and thunk entries, read directly from the source *)
SrcDescriptor(k) ==
    AtImportDescriptor(source,
        conv_rva(secs, nt.data_directory[1].virtual_address
                           + SizeOfImportDescriptor * k, checked).v).v
SrcThunk(t, e) == LE(source, conv_rva(secs, t + 8 * e, checked).v, 8)
Bit63(entry) == (entry \div (U64 \div 2)) % 2 = 1

(* the thunk table of descriptor d holds exactly the entries fs before its *)
(* first zero entry                                                        *)
ThunksAre(d, fs) ==
    LET t == IF d.original_first_thunk # 0 THEN d.original_first_thunk
             ELSE d.first_thunk
    IN /\ SrcThunk(t, Len(fs)) = 0
       /\ \A e \in 1..Len(fs) :
            LET entry == SrcThunk(t, e - 1) IN
            /\ entry # 0
            /\ IF Bit63(entry)
               THEN fs[e] = [kind |-> "by_ord", ord |-> entry % U16]
               ELSE /\ fs[e].kind = "by_name"
                    /\ Ok(fs[e].name) = read_str(secs, source, entry + 2, checked)

(* C5: the import list is exactly the descriptors that precede the first   *)
(* descriptor whose name field is zero, in walk order; each module's thunk *)
(* table starts at original_first_thunk when non-zero and at first_thunk   *)
(* otherwise; its functions are exactly the 8-byte entries before the      *)
(* first zero entry, by-ordinal (low 16 bits) when bit 63 is set, by-name  *)
(* (the string 2 bytes past the entry's RVA) when it is not.               *)
C5_ImportStructure ==
    (outcome = "image" /\ "import_addr" \in DOMAIN loc) =>
        /\ SrcDescriptor(Len(imports)).name = 0
        /\ \A k \in 1..Len(imports) :
              LET d == SrcDescriptor(k - 1) IN
              /\ d.name # 0
              /\ Ok(imports[k].name) = read_str(secs, source, d.name, checked)
              /\ ThunksAre(d, imports[k].funcs)

(* two modules decoded, one through original_first_thunk with a by-name    *)
(* and a by-ordinal function, one through first_thunk                      *)
C5_Witness ==
    /\ outcome = "image"
    /\ Len(imports) = 2
    /\ Len(imports[1].funcs) = 2
    /\ imports[1].funcs[1].kind = "by_name"
    /\ imports[1].funcs[2] = [kind |-> "by_ord", ord |-> 3]
    /\ imports[2].name = <<Lay.b>>
    /\ Len(imports[2].funcs) = 1

=============================================================================
